---- MODULE Spec2Model ----
(***************************************************************************)
(* Model of the Ride-Hailing Interactive Deck API (src/main.py).           *)
(*                                                                         *)
(* The handlers compute with Python floats (IEEE 754 binary64) and round   *)
(* their outputs with the built-in round().  The arithmetic is modelled    *)
(* bit for bit: a finite double is a sign, a 53-bit mantissa and a binary  *)
(* exponent; the mantissa is an unbounded natural kept as a little-endian  *)
(* sequence of 15-bit limbs, so that every intermediate stays inside the   *)
(* integers of the model checker.  NaN, infinities and subnormals are not  *)
(* modelled: every input below is a finite decimal of moderate size.       *)
(***************************************************************************)
EXTENDS Integers, Sequences, FiniteSets

(***************************************************************************)
(* Unbounded naturals: little-endian limb sequences, no leading zero limb. *)
(***************************************************************************)
LimbBits == 15
Base == 2^LimbBits

RECURSIVE BNorm(_)
BNorm(A) ==
    IF A = <<>> THEN <<>>
    ELSE IF A[Len(A)] = 0 THEN BNorm(SubSeq(A, 1, Len(A) - 1))
    ELSE A

RECURSIVE BFromInt(_)
BFromInt(n) ==
    IF n = 0 THEN <<>> ELSE <<n % Base>> \o BFromInt(n \div Base)

RECURSIVE BToInt(_)
BToInt(A) ==
    IF A = <<>> THEN 0 ELSE Head(A) + Base * BToInt(Tail(A))

RECURSIVE BAddC(_, _, _)
BAddC(A, C, carry) ==
    IF A = <<>> /\ C = <<>>
    THEN IF carry = 0 THEN <<>> ELSE <<carry>>
    ELSE LET a == IF A = <<>> THEN 0 ELSE Head(A)
             c == IF C = <<>> THEN 0 ELSE Head(C)
             t == a + c + carry
         IN  <<t % Base>> \o BAddC(IF A = <<>> THEN <<>> ELSE Tail(A),
                                   IF C = <<>> THEN <<>> ELSE Tail(C),
                                   t \div Base)

BAdd(A, C) == BAddC(A, C, 0)

\* A - C for A >= C.
RECURSIVE BSubC(_, _, _)
BSubC(A, C, borrow) ==
    IF A = <<>> THEN <<>>
    ELSE LET c == IF C = <<>> THEN 0 ELSE Head(C)
             t == Head(A) - c - borrow
         IN  <<IF t < 0 THEN t + Base ELSE t>>
             \o BSubC(Tail(A), IF C = <<>> THEN <<>> ELSE Tail(C),
                      IF t < 0 THEN 1 ELSE 0)

BSub(A, C) == BNorm(BSubC(A, C, 0))

\* -1, 0, 1 as A <, =, > C.
RECURSIVE BCmpFrom(_, _, _)
BCmpFrom(A, C, i) ==
    IF i = 0 THEN 0
    ELSE IF A[i] < C[i] THEN -1
    ELSE IF A[i] > C[i] THEN 1
    ELSE BCmpFrom(A, C, i - 1)

BCmp(A, C) ==
    IF Len(A) < Len(C) THEN -1
    ELSE IF Len(A) > Len(C) THEN 1
    ELSE BCmpFrom(A, C, Len(A))

\* A * k + carry for 0 <= k < Base.
RECURSIVE BMulSmallC(_, _, _)
BMulSmallC(A, k, carry) ==
    IF A = <<>> THEN BFromInt(carry)
    ELSE LET t == Head(A) * k + carry
         IN  <<t % Base>> \o BMulSmallC(Tail(A), k, t \div Base)

BMulSmall(A, k) == BNorm(BMulSmallC(A, k, 0))

BShiftLimb(A) == IF A = <<>> THEN <<>> ELSE <<0>> \o A

RECURSIVE BMul(_, _)
BMul(A, C) ==
    IF C = <<>> \/ A = <<>> THEN <<>>
    ELSE BAdd(BMulSmall(A, Head(C)), BShiftLimb(BMul(A, Tail(C))))

\* Quotient and remainder of A by a small d, 0 < d < Base.
RECURSIVE BDivSmallR(_, _)
BDivSmallR(A, d) ==
    IF A = <<>> THEN [q |-> <<>>, r |-> 0]
    ELSE LET hi == BDivSmallR(Tail(A), d)
             t  == hi.r * Base + Head(A)
         IN  [q |-> <<t \div d>> \o hi.q, r |-> t % d]

BDivSmall(A, d) ==
    LET qr == BDivSmallR(A, d) IN [q |-> BNorm(qr.q), r |-> qr.r]

RECURSIVE IntBitLen(_)
IntBitLen(n) == IF n = 0 THEN 0 ELSE 1 + IntBitLen(n \div 2)

BBitLen(A) ==
    IF A = <<>> THEN 0 ELSE LimbBits * (Len(A) - 1) + IntBitLen(A[Len(A)])

RECURSIVE BZeros(_)
BZeros(k) == IF k = 0 THEN <<>> ELSE <<0>> \o BZeros(k - 1)

BShl(A, k) ==
    IF A = <<>> THEN <<>>
    ELSE BZeros(k \div LimbBits) \o BMulSmall(A, 2^(k % LimbBits))

BShr(A, k) ==
    IF k \div LimbBits >= Len(A) THEN <<>>
    ELSE BDivSmall(SubSeq(A, (k \div LimbBits) + 1, Len(A)), 2^(k % LimbBits)).q

\* Bit i (bit 0 is the least significant) of A.
BBit(A, i) ==
    IF (i \div LimbBits) + 1 > Len(A) THEN 0
    ELSE (A[(i \div LimbBits) + 1] \div 2^(i % LimbBits)) % 2

\* Some bit among the k least significant bits of A is set.
BLowNonZero(A, k) ==
    \/ \E i \in 1..Len(A) : i <= k \div LimbBits /\ A[i] # 0
    \/ /\ (k \div LimbBits) + 1 <= Len(A)
       /\ A[(k \div LimbBits) + 1] % 2^(k % LimbBits) # 0

BOdd(A) == A # <<>> /\ A[1] % 2 = 1

\* Number of trailing zero bits of A # 0.
RECURSIVE BTrailingZeros(_, _)
BTrailingZeros(A, i) == IF BBit(A, i) = 1 THEN i ELSE BTrailingZeros(A, i + 1)

(***************************************************************************)
(* binary64: [sgn, man, exp] stands for sgn * man * 2^exp, with man = 0 or *)
(* 2^52 <= man < 2^53.  Every operation computes the exact result and      *)
(* rounds it once, to nearest, ties to even, as the hardware does.         *)
(***************************************************************************)
Precision == 53

FlZero == [sgn |-> 1, man |-> <<>>, exp |-> 0]

\* The 53-bit q, or the next 54-bit value halved, with its exponent.
FlPack(sgn, q, e) ==
    IF BBitLen(q) > Precision
    THEN [sgn |-> sgn, man |-> BShr(q, 1), exp |-> e + 1]
    ELSE [sgn |-> sgn, man |-> q, exp |-> e]

\* Round to nearest, ties to even: q is the kept part, guard the first
\* dropped bit, rest whether anything nonzero follows it.
RoundNearestEven(q, guard, rest) ==
    IF guard /\ (rest \/ BOdd(q)) THEN BAdd(q, <<1>>) ELSE q

FlRoundBits(sgn, N, e, sticky, sh) ==
    FlPack(sgn,
           RoundNearestEven(BShr(N, sh), BBit(N, sh - 1) = 1,
                            sticky \/ BLowNonZero(N, sh - 1)),
           e + sh)

\* sgn * N * 2^e (plus a nonzero amount below the last bit of N when sticky)
\* rounded to a double.
FlRound(sgn, N, e, sticky) ==
    IF N = <<>> THEN FlZero
    ELSE IF BBitLen(N) <= Precision
    THEN [sgn |-> sgn, man |-> BShl(N, Precision - BBitLen(N)),
          exp |-> e - (Precision - BBitLen(N))]
    ELSE FlRoundBits(sgn, N, e, sticky, BBitLen(N) - Precision)

\* float(n) for an integer n.
FlInt(n) == FlRound(IF n < 0 THEN -1 ELSE 1, BFromInt(IF n < 0 THEN -n ELSE n), 0, FALSE)

FlNeg(x) == IF x.man = <<>> THEN x ELSE [x EXCEPT !.sgn = -x.sgn]

FlMul(x, y) ==
    FlRound(x.sgn * y.sgn, BMul(x.man, y.man), x.exp + y.exp, FALSE)

\* X and Y are the mantissas of x and y brought to the common exponent e.
FlAddAligned(x, y, X, Y, e) ==
    FlRound(IF x.sgn = y.sgn \/ BCmp(X, Y) >= 0 THEN x.sgn ELSE y.sgn,
            IF x.sgn = y.sgn THEN BAdd(X, Y)
            ELSE IF BCmp(X, Y) >= 0 THEN BSub(X, Y) ELSE BSub(Y, X),
            e, FALSE)

FlAdd(x, y) ==
    IF x.man = <<>> THEN y
    ELSE IF y.man = <<>> THEN x
    ELSE IF x.exp < y.exp
    THEN FlAddAligned(x, y, x.man, BShl(y.man, y.exp - x.exp), x.exp)
    ELSE FlAddAligned(x, y, BShl(x.man, x.exp - y.exp), y.man, y.exp)

FlSub(x, y) == FlAdd(x, FlNeg(y))

\* x / y for a divisor y = odd * 2^t with odd < 2^15 (every divisor of the
\* program is a small whole number): the quotient carries 64 extra bits and
\* the remainder is the sticky bit.
DivExtra == 64

FlDivOdd(x, y, t, qr) ==
    FlRound(x.sgn * y.sgn, qr.q, x.exp - DivExtra - (y.exp + t), qr.r # 0)

FlDivShift(x, y, t) ==
    FlDivOdd(x, y, t, BDivSmall(BShl(x.man, DivExtra), BToInt(BShr(y.man, t))))

FlDiv(x, y) == FlDivShift(x, y, BTrailingZeros(y.man, 0))

\* The double nearest to the decimal n / 10^digits: a float literal of the
\* source, or a JSON number of a request.
FlDec(n, scale) == FlDiv(FlInt(n), FlInt(scale))

\* -1, 0, 1 as x <, =, > y.
FlCmpAbs(x, y) ==
    IF x.man = <<>> THEN (IF y.man = <<>> THEN 0 ELSE -1)
    ELSE IF y.man = <<>> THEN 1
    ELSE IF x.exp < y.exp THEN -1
    ELSE IF x.exp > y.exp THEN 1
    ELSE BCmp(x.man, y.man)

FlCmp(x, y) ==
    LET sx == IF x.man = <<>> THEN 0 ELSE x.sgn
        sy == IF y.man = <<>> THEN 0 ELSE y.sgn
    IN  IF sx < sy THEN -1
        ELSE IF sx > sy THEN 1
        ELSE IF sx = 0 THEN 0
        ELSE sx * FlCmpAbs(x, y)

FlLt(x, y) == FlCmp(x, y) < 0
FlGt(x, y) == FlCmp(x, y) > 0
FlMax(x, y) == IF FlGt(y, x) THEN y ELSE x
FlMin(x, y) == IF FlLt(y, x) THEN y ELSE x

\* int(x): truncation toward zero.
FlTrunc(x) ==
    IF x.man = <<>> THEN 0
    ELSE IF x.exp >= 0 THEN x.sgn * BToInt(BShl(x.man, x.exp))
    ELSE x.sgn * BToInt(BShr(x.man, -x.exp))

\* round(x, ndigits) with scale = 10^ndigits: the decimal with ndigits
\* places nearest to the exact value of x, ties to even, given as the whole
\* number of units of 10^-ndigits.
PyRoundBits(sgn, N, sh) ==
    sgn * BToInt(RoundNearestEven(BShr(N, sh), BBit(N, sh - 1) = 1,
                                  BLowNonZero(N, sh - 1)))

PyRound(x, scale) ==
    IF x.man = <<>> THEN 0
    ELSE IF x.exp >= 0 THEN x.sgn * BToInt(BShl(BMulSmall(x.man, scale), x.exp))
    ELSE PyRoundBits(x.sgn, BMulSmall(x.man, scale), -x.exp)

(***************************************************************************)
(* Literals of the source and conversions of request values.  A decimal of *)
(* a request is held as a whole number of hundredths.                       *)
(***************************************************************************)
Hundredths == 100

FlOfHundredths(n) == FlDec(n, Hundredths)

base_per_km == FlDec(350, 10)        \* 35.0
Lit_0_05 == FlDec(5, 100)            \* 0.05
Lit_0_95 == FlDec(95, 100)           \* 0.95
Lit_0_4  == FlDec(4, 10)             \* 0.4
Lit_0_75 == FlDec(75, 100)           \* 0.75
Lit_0_2  == FlDec(2, 10)             \* 0.2
Lit_0_08 == FlDec(8, 100)            \* 0.08
Lit_0_12 == FlDec(12, 100)           \* 0.12

(***************************************************************************)
(* Strings that the program inspects character by character are sequences  *)
(* of one-character strings; str.lower() maps A..Z to a..z.                *)
(***************************************************************************)
UpperLetters == <<"A","B","C","D","E","F","G","H","I","J","K","L","M",
                  "N","O","P","Q","R","S","T","U","V","W","X","Y","Z">>
LowerLetters == <<"a","b","c","d","e","f","g","h","i","j","k","l","m",
                  "n","o","p","q","r","s","t","u","v","w","x","y","z">>

LowerChar(c) ==
    IF \E i \in 1..Len(UpperLetters) : UpperLetters[i] = c
    THEN LowerLetters[CHOOSE i \in 1..Len(UpperLetters) : UpperLetters[i] = c]
    ELSE c

\* The comparison without case folding.
lowerIdentity(s) == s

lower(s) == [i \in 1..Len(s) |-> LowerChar(s[i])]

CityRow(city, hours, before, after, female10, uninsured, vehicle) ==
    [city |-> city, avg_weekly_hours |-> hours,
     avg_takehome_before_costs |-> before, avg_takehome_after_costs |-> after,
     pct_female_drivers_tenths |-> female10, pct_uninsured |-> uninsured,
     vehicle |-> vehicle]

Islamabad == <<"I","s","l","a","m","a","b","a","d">>
Lahore    == <<"L","a","h","o","r","e">>
Karachi   == <<"K","a","r","a","c","h","i">>

SampleRows == <<
    CityRow(Islamabad, 76, 28000, 19000, 10, 78, "car"),
    CityRow(Lahore,    82, 30000, 19500,  5, 82, "car"),
    CityRow(Karachi,   85, 31500, 20000,  7, 80, "car"),
    CityRow(Islamabad, 70, 24000, 16500, 12, 76, "bike"),
    CityRow(Lahore,    78, 25500, 17000,  6, 81, "bike"),
    CityRow(Karachi,   80, 26500, 17400,  8, 79, "bike") >>

(***************************************************************************)
(* Requests.  An optional query parameter is [given, value]; a parameter   *)
(* left out of the URL is not given, "?city=" gives the empty string.      *)
(***************************************************************************)
Absent == [given |-> FALSE, value |-> <<>>]
Given(v) == [given |-> TRUE, value |-> v]
AbsentStr == [given |-> FALSE, value |-> ""]

CityInputs ==
    { Absent, Given(<<>>), Given(Lahore), Given(lower(Lahore)),
      Given(<<"L","A","H","O","R","E">>), Given(<<"l","A","h","O","r","E">>),
      Given(Islamabad), Given(lower(Islamabad)),
      Given(<<"K","A","R","A","C","H","I">>), Given(Karachi),
      Given(<<"M","u","l","t","a","n">>), Given(<<"L","a","h","o","r">>),
      Given(<<"L","a","h","o","r","e"," ">>) }

VehicleInputs ==
    { AbsentStr, Given(""), Given("car"), Given("bike"), Given("Car"), Given("truck") }

ChartRequests ==
    { [endpoint |-> "/api/chart-data", city |-> c, vehicle |-> v] :
        c \in CityInputs, v \in VehicleInputs }

HoursInputs   == {-2, 8, 10, 11, 14, 22, 23}
KmInputs      == {-50, 100, 119, 120, 200}
BaseFareInputs == {3000, 4550}             \* 30.00, 45.50
FuelCostInputs == {15000, 27289}           \* 150.00, 272.89
BonusInputs   == {0, 5}                    \* 0.00, 0.05
PenaltyInputs == {-10, 0, 7, 20, 29, 58, 150}

SimRequests ==
    { [endpoint |-> "/api/simulate", hours_online |-> h, fuel_cost_per_liter |-> f,
       km_driven |-> k, base_fare_per_km |-> b, algorithm_bonus |-> ab,
       algorithm_penalty |-> ap] :
        h \in HoursInputs, f \in FuelCostInputs, k \in KmInputs,
        b \in BaseFareInputs, ab \in BonusInputs, ap \in PenaltyInputs }

Scenarios == {"short", "peak", "long"}
ScenarioInputs == Scenarios \cup {"rush"}

\* Fares in hundredths: a grid over and beyond the accepted range, and the
\* values next to every threshold of the handler.
FareStep == 1000
MaxFareSteps == 305
ThresholdFares ==
    { 2000, 4900, 4999, 5001, 5100, 5700, 7500, 9050,
      11900, 12000, 12100, 21900, 22000, 22100, 30700, 30800, 30900,
      19900, 20050, 20100,
      29900, 30100, 53200, 53250, 53300, 54900, 55000, 55100,
      76900, 77000, 77100,
      53900, 54000, 54100, 75200, 75300, 75400, 98900, 99000, 99100,
      138500, 138600, 138700,
      299900, 300001, 300100, 500000 }
FareInputs == ThresholdFares \cup { k * FareStep : k \in 0..MaxFareSteps }

PlatformRequests ==
    { [endpoint |-> "/api/platform-comparison", scenario |-> s, proposed_fare |-> p] :
        s \in ScenarioInputs, p \in FareInputs }

\* GET /test: what the optional database module and the environment do during
\* the request.  import_db is the outcome of `from database import db`,
\* get_name of getattr(db, 'name', None), list_names of
\* db.list_collection_names() (a number n stands for a list of n names).
MaxCollections == 12

CollectionNames(n) == [i \in 1..n |-> i]

ImportOutcomes == {"ImportError", "None", "db"}
NameOutcomes   == {"raises", "None", "name"}
ListOutcomes   == {[raises |-> TRUE, names |-> <<>>]}
                  \cup {[raises |-> FALSE, names |-> CollectionNames(n)] : n \in 0..MaxCollections}

TestRequests ==
    { [endpoint |-> "/test", import_db |-> i, get_name |-> g, list_names |-> l,
       DATABASE_URL |-> u, DATABASE_NAME |-> n] :
        i \in ImportOutcomes, g \in NameOutcomes, l \in ListOutcomes,
        u \in BOOLEAN, n \in BOOLEAN }

FixedEndpoints == {"/", "/api/summary", "/api/voices", "/api/timeline"}

FixedRequests == { [endpoint |-> e] : e \in FixedEndpoints }

\* SAMPLE_DATA is the module-level list; pc, request, response and frame (the
\* local variables of the handler at its return) belong to the exchange in
\* progress.  probe, memo and interleaved are history: the first response
\* that the request probe received, and whether another request has been
\* served since.
VARIABLES SAMPLE_DATA, pc, request, response, frame, probe, memo, interleaved

vars == <<SAMPLE_DATA, pc, request, response, frame, probe, memo, interleaved>>

history == <<probe, memo, interleaved>>

NoRequest  == [endpoint |-> "none"]
NoResponse == [status |-> 0]
NoFrame    == [handler |-> "none"]

Init ==
    /\ SAMPLE_DATA = SampleRows
    /\ pc = "idle"
    /\ request = NoRequest
    /\ response = NoResponse
    /\ frame = NoFrame
    /\ probe = NoRequest
    /\ memo = NoResponse
    /\ interleaved = FALSE

Requests ==
    ChartRequests \cup SimRequests \cup PlatformRequests \cup TestRequests \cup FixedRequests

ReceiveFrom(reqs) ==
    /\ pc = "idle"
    /\ \E req \in reqs : request' = req
    /\ pc' = "received"
    /\ UNCHANGED <<SAMPLE_DATA, response, frame, history>>

Receive == ReceiveFrom(Requests)

(***************************************************************************)
(* GET /api/chart-data                                                     *)
(***************************************************************************)
CityFilter(data, city) ==
    LET Keep(d) == lower(d.city) = lower(city) IN SelectSeq(data, Keep)

VehicleFilter(data, vehicle) ==
    LET Keep(d) == d.vehicle = vehicle IN SelectSeq(data, Keep)

\* `if city:` holds for a string that is given and not empty.
Truthy(param, empty) == param.given /\ param.value # empty

chart_data(data0, city, vehicle) ==
    LET data1 == IF Truthy(city, <<>>) THEN CityFilter(data0, city.value) ELSE data0
        data2 == IF Truthy(vehicle, "") THEN VehicleFilter(data1, vehicle.value) ELSE data1
    IN  data2

\* The handler filtering the module-level list itself instead of a copy.
ChartDataInPlace ==
    /\ pc = "received"
    /\ request.endpoint = "/api/chart-data"
    /\ response' = [status |-> 200,
                    body |-> chart_data(SAMPLE_DATA, request.city, request.vehicle)]
    /\ SAMPLE_DATA' = chart_data(SAMPLE_DATA, request.city, request.vehicle)
    /\ frame' = [handler |-> "chart_data"]
    /\ pc' = "responded"
    /\ UNCHANGED <<request, history>>

ChartData ==
    /\ pc = "received"
    /\ request.endpoint = "/api/chart-data"
    /\ response' = [status |-> 200,
                    body |-> chart_data(SAMPLE_DATA, request.city, request.vehicle)]
    /\ frame' = [handler |-> "chart_data"]
    /\ pc' = "responded"
    /\ UNCHANGED <<SAMPLE_DATA, request, history>>

(***************************************************************************)
(* GET /api/platform-comparison                                            *)
(***************************************************************************)
FareMin == FlDec(500, 10)     \* ge=50.0
FareMax == FlDec(30000, 10)   \* le=3000.0

ScenarioValid(req) == req.scenario \in Scenarios

\* The bounds declared with gt and lt instead of ge and le.
FareValidStrict(req) ==
    LET fare == FlOfHundredths(req.proposed_fare)
    IN  FlCmp(fare, FareMin) > 0 /\ FlCmp(fare, FareMax) < 0

FareValid(req) ==
    LET fare == FlOfHundredths(req.proposed_fare)
    IN  FlCmp(fare, FareMin) >= 0 /\ FlCmp(fare, FareMax) <= 0

InvalidFields(req) ==
    (IF ScenarioValid(req) THEN {} ELSE {"scenario"})
    \cup (IF FareValid(req) THEN {} ELSE {"proposed_fare"})

ValidationFailure ==
    /\ pc = "received"
    /\ request.endpoint = "/api/platform-comparison"
    /\ InvalidFields(request) # {}
    /\ response' = [status |-> 422, detail |-> InvalidFields(request)]
    /\ pc' = "responded"
    /\ UNCHANGED <<SAMPLE_DATA, request, frame, history>>

ScenarioKm(scenario) ==
    IF scenario = "short" THEN FlDec(40, 10)
    ELSE IF scenario = "peak" THEN FlDec(100, 10) ELSE FlDec(180, 10)

ScenarioSurge(scenario) ==
    IF scenario = "short" THEN FlDec(10, 10)
    ELSE IF scenario = "peak" THEN FlDec(135, 100) ELSE FlDec(11, 10)

\* Rounding by int(x + 0.5), which sends a tie upwards.
YangoFareHalfUp(km, surge) ==
    FlTrunc(FlAdd(FlAdd(FlMul(FlMul(base_per_km, km), surge), FlInt(60)), FlDec(5, 10)))

YangoFare(km, surge) ==
    PyRound(FlAdd(FlMul(FlMul(base_per_km, km), surge), FlInt(60)), 1)

\* The first comparison written with <=, which takes the lower end of the
\* range out of the sweet spot.
AcceptanceLowExcluded(proposed_fare, fair_range_low, fair_range_high) ==
    IF FlCmp(proposed_fare, fair_range_low) <= 0
    THEN FlMax(Lit_0_05, FlDiv(proposed_fare, fair_range_low))
    ELSE IF FlGt(proposed_fare, fair_range_high)
    THEN FlSub(Lit_0_95,
               FlMin(Lit_0_4, FlDiv(FlSub(proposed_fare, fair_range_high), fair_range_high)))
    ELSE FlAdd(Lit_0_75,
               FlMul(Lit_0_2, FlDiv(FlSub(proposed_fare, fair_range_low),
                                    FlSub(fair_range_high, fair_range_low))))

Acceptance(proposed_fare, fair_range_low, fair_range_high) ==
    IF FlLt(proposed_fare, fair_range_low)
    THEN FlMax(Lit_0_05, FlDiv(proposed_fare, fair_range_low))
    ELSE IF FlGt(proposed_fare, fair_range_high)
    THEN FlSub(Lit_0_95,
               FlMin(Lit_0_4, FlDiv(FlSub(proposed_fare, fair_range_high), fair_range_high)))
    ELSE FlAdd(Lit_0_75,
               FlMul(Lit_0_2, FlDiv(FlSub(proposed_fare, fair_range_low),
                                    FlSub(fair_range_high, fair_range_low))))

\* The first comparison written with >=, which leaves no balanced case.
BeneficiaryNoTie(proposed_fare, yango_fare) ==
    IF FlCmp(proposed_fare, FlInt(yango_fare)) >= 0 THEN "driver"
    ELSE IF FlLt(proposed_fare, FlInt(yango_fare)) THEN "passenger"
    ELSE "balanced"

Beneficiary(proposed_fare, yango_fare) ==
    IF FlGt(proposed_fare, FlInt(yango_fare)) THEN "driver"
    ELSE IF FlLt(proposed_fare, FlInt(yango_fare)) THEN "passenger"
    ELSE "balanced"

platform_comparison(scenario, fare_hundredths) ==
    LET proposed_fare   == FlOfHundredths(fare_hundredths)
        km              == ScenarioKm(scenario)
        surge           == ScenarioSurge(scenario)
        yango_fare      == YangoFare(km, surge)
        fair_range_low  == FlMul(FlInt(30), km)
        fair_range_high == FlMul(FlInt(55), km)
        acceptance      == Acceptance(proposed_fare, fair_range_low, fair_range_high)
    IN  [handler |-> "platform_comparison",
         km |-> km, surge |-> surge, yango_fare |-> yango_fare,
         fair_range_low |-> fair_range_low, fair_range_high |-> fair_range_high,
         acceptance |-> acceptance,
         beneficiary |-> Beneficiary(proposed_fare, yango_fare)]

\* Lines 146-153: the returned dict, built from the locals f.
PlatformResult(req, f) ==
    [scenario |-> req.scenario,
     yango_fare |-> f.yango_fare,
     indrive_proposed |-> req.proposed_fare,
     acceptance_prob |-> PyRound(f.acceptance, 100),
     beneficiary |-> f.beneficiary,
     km |-> f.km]

PlatformComparison ==
    /\ pc = "received"
    /\ request.endpoint = "/api/platform-comparison"
    /\ InvalidFields(request) = {}
    /\ frame' = platform_comparison(request.scenario, request.proposed_fare)
    /\ response' = [status |-> 200, body |-> PlatformResult(request, frame')]
    /\ pc' = "responded"
    /\ UNCHANGED <<SAMPLE_DATA, request, history>>

(***************************************************************************)
(* POST /api/simulate                                                      *)
(***************************************************************************)
\* The threshold written with <=.
FuelEfficiencyInclusive(km_driven) == IF km_driven <= 120 THEN 18 ELSE 16

FuelEfficiency(km_driven) == IF km_driven < 120 THEN 18 ELSE 16

\* The heuristic without its final clamp.
StressUnclamped(hours_online, algorithm_penalty) ==
    LET s0 == 50
        s1 == IF hours_online > 10 THEN s0 + (hours_online - 10) * 4 ELSE s0
    IN  IF FlGt(algorithm_penalty, FlZero)
        THEN s1 + (FlTrunc(FlMul(algorithm_penalty, FlInt(100))) \div 2)
        ELSE s1

Stress(hours_online, algorithm_penalty) ==
    LET s0 == 50
        s1 == IF hours_online > 10 THEN s0 + (hours_online - 10) * 4 ELSE s0
        s2 == IF FlGt(algorithm_penalty, FlZero)
              THEN s1 + (FlTrunc(FlMul(algorithm_penalty, FlInt(100))) \div 2)
              ELSE s1
        lo == IF s2 < 100 THEN s2 ELSE 100
    IN  IF lo > 0 THEN lo ELSE 0

simulate_day(inp) ==
    LET base_fare_per_km    == FlOfHundredths(inp.base_fare_per_km)
        fuel_cost_per_liter == FlOfHundredths(inp.fuel_cost_per_liter)
        algorithm_bonus     == FlOfHundredths(inp.algorithm_bonus)
        algorithm_penalty   == FlOfHundredths(inp.algorithm_penalty)
        gross0 == FlMul(FlInt(inp.km_driven), base_fare_per_km)
        gross1 == FlMul(gross0, FlAdd(FlInt(1), algorithm_bonus))
        gross_income == FlMul(gross1, FlSub(FlInt(1), algorithm_penalty))
        fuel_eff_km_per_l == FuelEfficiency(inp.km_driven)
        liters == FlDiv(FlInt(inp.km_driven), FlInt(fuel_eff_km_per_l))
        fuel_cost == FlMul(liters, fuel_cost_per_liter)
        maintenance == FlMul(Lit_0_08, gross_income)
        platform_fee == FlMul(Lit_0_12, gross_income)
        net_takehome == FlSub(gross_income,
                              FlAdd(FlAdd(fuel_cost, maintenance), platform_fee))
    IN  [handler |-> "simulate_day",
         gross_income |-> gross_income, fuel_eff_km_per_l |-> fuel_eff_km_per_l,
         fuel_cost |-> fuel_cost, maintenance |-> maintenance,
         platform_fee |-> platform_fee, net_takehome |-> net_takehome,
         stress |-> Stress(inp.hours_online, algorithm_penalty)]

\* Lines 111-118: the returned dict, built from the locals f.
SimResult(f) ==
    [gross_income |-> PyRound(f.gross_income, 100),
     fuel_cost |-> PyRound(f.fuel_cost, 100),
     maintenance |-> PyRound(f.maintenance, 100),
     platform_fee |-> PyRound(f.platform_fee, 100),
     net_takehome |-> PyRound(f.net_takehome, 100),
     stress_index |-> f.stress]

SimulateDay ==
    /\ pc = "received"
    /\ request.endpoint = "/api/simulate"
    /\ frame' = simulate_day(request)
    /\ response' = [status |-> 200, body |-> SimResult(frame')]
    /\ pc' = "responded"
    /\ UNCHANGED <<SAMPLE_DATA, request, history>>

(***************************************************************************)
(* GET /test                                                               *)
(***************************************************************************)
EnvStatus(set) == IF set THEN "Set" ELSE "Not Set"

TestInitial ==
    [backend |-> "Running", database |-> "Not Available",
     database_url |-> "None", database_name |-> "None",
     connection_status |-> "Not Connected", collections |-> <<>>]

\* The listing returned whole, without the [:10] slice.
TestListingUnsliced(r, env) ==
    IF env.list_names.raises
    THEN [r EXCEPT !.database = "Connected but Error"]
    ELSE [r EXCEPT !.collections = env.list_names.names,
                   !.database = "Connected & Working",
                   !.connection_status = "Connected"]

\* Lines 193-199: the inner try around the listing of the collections.
TestListing(r, env) ==
    IF env.list_names.raises
    THEN [r EXCEPT !.database = "Connected but Error"]
    ELSE [r EXCEPT !.collections = SubSeq(env.list_names.names, 1,
                                          IF Len(env.list_names.names) < 10
                                          THEN Len(env.list_names.names) ELSE 10),
                   !.database = "Connected & Working",
                   !.connection_status = "Connected"]

\* Lines 188-199: the body of the outer try.  exc is the exception that
\* leaves it, r the response as it stands at that point.
TestProbe(r, env) ==
    IF env.import_db = "ImportError" THEN [r |-> r, exc |-> "ImportError"]
    ELSE IF env.import_db = "None" THEN [r |-> r, exc |-> "none"]
    ELSE LET r1 == [r EXCEPT !.database = "Available",
                             !.database_url = EnvStatus(env.DATABASE_URL)]
         IN  IF env.get_name = "raises" THEN [r |-> r1, exc |-> "Exception"]
             ELSE [r |-> TestListing(
                           [r1 EXCEPT !.database_name =
                               IF env.get_name = "name" THEN "name"
                               ELSE EnvStatus(env.DATABASE_NAME)], env),
                   exc |-> "none"]

\* Lines 200-201, `except Exception: pass`, catch whatever left the try.
TestCaught(exc) == exc \in {"none", "ImportError", "Exception"}

test_database(env) ==
    LET t == TestProbe(TestInitial, env)
    IN  IF TestCaught(t.exc)
        THEN [status |-> 200,
              body |-> [t.r EXCEPT !.database_url = EnvStatus(env.DATABASE_URL),
                                   !.database_name = EnvStatus(env.DATABASE_NAME)]]
        ELSE [status |-> 500]

TestDatabase ==
    /\ pc = "received"
    /\ request.endpoint = "/test"
    /\ response' = test_database(request)
    /\ frame' = [handler |-> "test_database"]
    /\ pc' = "responded"
    /\ UNCHANGED <<SAMPLE_DATA, request, history>>

(***************************************************************************)
(* GET /, /api/summary, /api/voices, /api/timeline: constant payloads,     *)
(* named by their route.                                                   *)
(***************************************************************************)
FixedPayload ==
    /\ pc = "received"
    /\ request.endpoint \in FixedEndpoints
    /\ response' = [status |-> 200, body |-> [payload |-> request.endpoint]]
    /\ frame' = [handler |-> "fixed"]
    /\ pc' = "responded"
    /\ UNCHANGED <<SAMPLE_DATA, request, history>>

Deliver ==
    /\ pc = "responded"
    /\ pc' = "idle"
    /\ request' = NoRequest
    /\ response' = NoResponse
    /\ frame' = NoFrame
    /\ memo' = IF request = probe /\ memo = NoResponse THEN response ELSE memo
    /\ interleaved' = (interleaved \/ (memo # NoResponse /\ request # probe))
    /\ UNCHANGED <<SAMPLE_DATA, probe>>

Next ==
    \/ Receive
    \/ ChartData
    \/ ValidationFailure
    \/ PlatformComparison
    \/ SimulateDay
    \/ TestDatabase
    \/ FixedPayload
    \/ Deliver

Spec == Init /\ [][Next]_vars

(***************************************************************************)
(* The same service observed through one repeated request: probe is fixed  *)
(* at the start and every response to it is compared with the first one,   *)
(* whatever other requests are served in between.                          *)
(***************************************************************************)
ProbeRequests ==
    { [endpoint |-> "/api/chart-data", city |-> Absent, vehicle |-> AbsentStr],
      [endpoint |-> "/api/chart-data", city |-> Given(lower(Lahore)), vehicle |-> Given("bike")],
      [endpoint |-> "/api/simulate", hours_online |-> 14, fuel_cost_per_liter |-> 15000,
       km_driven |-> 100, base_fare_per_km |-> 3000, algorithm_bonus |-> 0,
       algorithm_penalty |-> 20],
      [endpoint |-> "/api/platform-comparison", scenario |-> "peak", proposed_fare |-> 30000] }

HistoryRequests ==
    ProbeRequests \cup ChartRequests \cup FixedRequests
    \cup { r \in PlatformRequests : r.proposed_fare \in {2000, 53200} }
    \cup { r \in SimRequests : r.hours_online = 23 /\ r.km_driven = 120
                               /\ r.base_fare_per_km = 4550 }
    \cup { r \in TestRequests : r.get_name = "name" /\ r.DATABASE_URL /\ ~r.DATABASE_NAME
                                /\ Len(r.list_names.names) \in {0, MaxCollections} }

InitHistory ==
    /\ SAMPLE_DATA = SampleRows
    /\ pc = "idle"
    /\ request = NoRequest
    /\ response = NoResponse
    /\ frame = NoFrame
    /\ probe \in ProbeRequests
    /\ memo = NoResponse
    /\ interleaved = FALSE

ReceiveHistory == ReceiveFrom(HistoryRequests)

NextHistory ==
    \/ ReceiveHistory
    \/ ChartData
    \/ ValidationFailure
    \/ PlatformComparison
    \/ SimulateDay
    \/ TestDatabase
    \/ FixedPayload
    \/ Deliver

SpecHistory == InitHistory /\ [][NextHistory]_vars

(***************************************************************************)
(* Properties.                                                             *)
(***************************************************************************)
Responded(endpoint) == pc = "responded" /\ request.endpoint = endpoint

Accepted == Responded("/api/platform-comparison") /\ response.status = 200

\* The scenario constants in whole units and hundredths.
KmUnits(scenario) == IF scenario = "short" THEN 4 ELSE IF scenario = "peak" THEN 10 ELSE 18
SurgeHundredths(scenario) ==
    IF scenario = "short" THEN 100 ELSE IF scenario = "peak" THEN 135 ELSE 110
LowHundredths(scenario)  == 30 * KmUnits(scenario) * Hundredths
HighHundredths(scenario) == 55 * KmUnits(scenario) * Hundredths

\* C1: a /api/platform-comparison request whose proposed_fare is below 50 or
\* above 3000, or whose scenario is not short, peak or long, is answered with
\* a validation error naming the offending fields, the handler never runs for
\* it and no result is produced; every other request is accepted, computed and
\* echoes the fare it was given, unclamped.
C1_ValidationBeforeComputation ==
    Responded("/api/platform-comparison") =>
        LET inRange == 5000 <= request.proposed_fare /\ request.proposed_fare <= 300000
            known   == request.scenario \in {"short", "peak", "long"}
        IN  IF inRange /\ known
            THEN /\ response.status = 200
                 /\ frame.handler = "platform_comparison"
                 /\ response.body.indrive_proposed = request.proposed_fare
            ELSE /\ response.status = 422
                 /\ "body" \notin DOMAIN response
                 /\ frame = NoFrame
                 /\ ("proposed_fare" \in response.detail) = ~inRange
                 /\ ("scenario" \in response.detail) = ~known

C1_Witness ==
    /\ Responded("/api/platform-comparison")
    /\ request.scenario = "peak"
    /\ request.proposed_fare = 500000
    /\ response.status = 422

\* C2 as stated: km and surge are fixed by the scenario, yango_fare is
\* 35*km*surge+60 rounded to the nearest integer, and peak gives 533.
C2_Original ==
    Accepted =>
        /\ response.body.km = FlInt(KmUnits(request.scenario))
        /\ frame.surge = FlDec(SurgeHundredths(request.scenario), Hundredths)
        /\ request.scenario = "peak" => response.body.yango_fare = 533

\* C2 amended: km and surge are fixed by the scenario alone and yango_fare is
\* the double 35*km*surge+60 rounded to a whole number with ties to even,
\* whatever the proposed fare: 200 for short, 532 for peak (the sum is exactly
\* 532.5) and 753 for long, never more than one half away from the exact sum.
C2_YangoFare ==
    Accepted =>
        LET twiceExact ==
                (2 * 35 * KmUnits(request.scenario) * SurgeHundredths(request.scenario))
                    \div Hundredths + 120
            diff == 2 * response.body.yango_fare - twiceExact
        IN  /\ response.body.km = FlInt(KmUnits(request.scenario))
            /\ frame.surge = FlDec(SurgeHundredths(request.scenario), Hundredths)
            /\ -1 <= diff /\ diff <= 1
            /\ (diff # 0) => response.body.yango_fare % 2 = 0
            /\ request.scenario = "short" => response.body.yango_fare = 200
            /\ request.scenario = "peak"  => response.body.yango_fare = 532
            /\ request.scenario = "long"  => response.body.yango_fare = 753

C2_Witness ==
    /\ Accepted
    /\ request.scenario = "peak"
    /\ response.body.km = FlInt(10)
    /\ response.body.yango_fare = 532

\* C3: for an accepted request, low = 30*km, high = 55*km and the acceptance
\* before rounding is max(0.05, fare/low) below low, 0.95 - min(0.4,
\* (fare-high)/high) above high and 0.75 + 0.2*((fare-low)/(high-low)) in
\* between; it is exactly 0.75 at low and 0.95 at high, and no divisor is 0.
C3_Acceptance ==
    Accepted =>
        LET fare == FlOfHundredths(request.proposed_fare)
            low  == FlInt(30 * KmUnits(request.scenario))
            high == FlInt(55 * KmUnits(request.scenario))
            p    == request.proposed_fare
            lo   == LowHundredths(request.scenario)
            hi   == HighHundredths(request.scenario)
        IN  /\ frame.fair_range_low = low
            /\ frame.fair_range_high = high
            /\ low # FlZero /\ high # FlZero /\ FlSub(high, low) # FlZero
            /\ p < lo => frame.acceptance = FlMax(FlDec(5, 100), FlDiv(fare, low))
            /\ p > hi => frame.acceptance =
                            FlSub(FlDec(95, 100),
                                  FlMin(FlDec(4, 10), FlDiv(FlSub(fare, high), high)))
            /\ (lo <= p /\ p <= hi) =>
                   frame.acceptance =
                       FlAdd(FlDec(75, 100),
                             FlMul(FlDec(2, 10), FlDiv(FlSub(fare, low), FlSub(high, low))))
            /\ p = lo => frame.acceptance = FlDec(75, 100) /\ response.body.acceptance_prob = 75
            /\ p = hi => frame.acceptance = FlDec(95, 100) /\ response.body.acceptance_prob = 95
            /\ response.body.acceptance_prob = PyRound(frame.acceptance, 100)

C3_Witness ==
    /\ Accepted
    /\ request.scenario = "peak"
    /\ request.proposed_fare = 30000
    /\ response.body.acceptance_prob = 75

\* C4 as stated: the records whose city equals the given city ignoring case
\* whenever a city is given, and whose vehicle equals the given vehicle
\* whenever a vehicle is given, in the original order.
SameLetter(a, b) ==
    \/ a = b
    \/ \E i \in 1..Len(UpperLetters) : {a, b} = {UpperLetters[i], LowerLetters[i]}

EqualIgnoringCase(s, t) ==
    Len(s) = Len(t) /\ \A i \in 1..Len(s) : SameLetter(s[i], t[i])

C4_Original ==
    Responded("/api/chart-data") =>
        LET Match(d) ==
                /\ request.city.given => EqualIgnoringCase(d.city, request.city.value)
                /\ request.vehicle.given => d.vehicle = request.vehicle.value
        IN  /\ response.status = 200
            /\ response.body = SelectSeq(SampleRows, Match)

\* C4 amended: a city or vehicle parameter constrains the result only when it
\* is given and not empty; the response is then exactly the records of the
\* six-record list that match every such parameter (city ignoring case,
\* vehicle exactly), in the original order, all six when nothing constrains,
\* and an empty list, not an error, when nothing matches.
C4_ChartFilter ==
    Responded("/api/chart-data") =>
        LET byCity    == request.city.given /\ request.city.value # <<>>
            byVehicle == request.vehicle.given /\ request.vehicle.value # ""
            Match(d) ==
                /\ byCity => EqualIgnoringCase(d.city, request.city.value)
                /\ byVehicle => d.vehicle = request.vehicle.value
        IN  /\ response.status = 200
            /\ response.body = SelectSeq(SampleRows, Match)
            /\ (~byCity /\ ~byVehicle) => response.body = SampleRows

C4_Witness ==
    /\ Responded("/api/chart-data")
    /\ request.city = Given(<<"l","A","h","O","r","E">>)
    /\ request.vehicle = Given("bike")
    /\ response.body = <<SampleRows[5]>>

\* C5: stress_index is 50, plus (hours_online - 10)*4 only when hours_online
\* exceeds 10, plus trunc(algorithm_penalty*100) integer-divided by 2 only
\* when algorithm_penalty is positive, clamped to 0..100; 14 hours with a
\* penalty of 0.20 give 76.
C5_StressIndex ==
    Responded("/api/simulate") =>
        LET h       == request.hours_online
            hours   == IF h > 10 THEN (h - 10) * 4 ELSE 0
            scaled  == FlTrunc(FlMul(FlOfHundredths(request.algorithm_penalty), FlInt(100)))
            penalty == IF request.algorithm_penalty > 0 THEN scaled \div 2 ELSE 0
            sum     == 50 + hours + penalty
        IN  /\ response.status = 200
            /\ response.body.stress_index \in 0..100
            /\ response.body.stress_index =
                   (IF sum > 100 THEN 100 ELSE IF sum < 0 THEN 0 ELSE sum)
            /\ (h = 14 /\ request.algorithm_penalty = 20) => response.body.stress_index = 76

C5_Witness ==
    /\ Responded("/api/simulate")
    /\ request.hours_online = 14
    /\ request.algorithm_penalty = 20
    /\ response.body.stress_index = 76

\* C6: every SimInput is answered (negative km_driven and a penalty above 1
\* included) with gross = km*base*(1+bonus)*(1-penalty), fuel_cost =
\* (km/eff)*fuel_cost_per_liter with eff 18 below 120 km and 16 from 120 km,
\* maintenance = 0.08*gross, platform_fee = 0.12*gross and net = gross -
\* (fuel_cost + maintenance + platform_fee), each rounded to 2 decimals at the
\* output only; 100 km at 30 per km with fuel at 150 give 3000, 833.33, 240,
\* 360 and 1566.67.
C6_Money ==
    Responded("/api/simulate") =>
        LET km      == FlInt(request.km_driven)
            base    == FlOfHundredths(request.base_fare_per_km)
            bonus   == FlOfHundredths(request.algorithm_bonus)
            penalty == FlOfHundredths(request.algorithm_penalty)
            fuel    == FlOfHundredths(request.fuel_cost_per_liter)
            eff     == IF request.km_driven >= 120 THEN 16 ELSE 18
            gross   == FlMul(FlMul(FlMul(km, base), FlAdd(FlInt(1), bonus)),
                             FlSub(FlInt(1), penalty))
            fuel_cost == FlMul(FlDiv(km, FlInt(eff)), fuel)
            maintenance == FlMul(FlDec(8, 100), gross)
            platform_fee == FlMul(FlDec(12, 100), gross)
            net == FlSub(gross, FlAdd(FlAdd(fuel_cost, maintenance), platform_fee))
        IN  /\ response.status = 200
            /\ frame.net_takehome = net
            /\ response.body.gross_income = PyRound(gross, 100)
            /\ response.body.fuel_cost = PyRound(fuel_cost, 100)
            /\ response.body.maintenance = PyRound(maintenance, 100)
            /\ response.body.platform_fee = PyRound(platform_fee, 100)
            /\ response.body.net_takehome = PyRound(net, 100)
            /\ (/\ request.km_driven = 100 /\ request.base_fare_per_km = 3000
                /\ request.fuel_cost_per_liter = 15000
                /\ request.algorithm_bonus = 0 /\ request.algorithm_penalty = 0)
               => /\ response.body.gross_income = 300000
                  /\ response.body.fuel_cost = 83333
                  /\ response.body.maintenance = 24000
                  /\ response.body.platform_fee = 36000
                  /\ response.body.net_takehome = 156667

C6_Witness ==
    /\ Responded("/api/simulate")
    /\ request.km_driven = 100 /\ request.base_fare_per_km = 3000
    /\ request.fuel_cost_per_liter = 15000
    /\ request.algorithm_bonus = 0 /\ request.algorithm_penalty = 0
    /\ response.body.fuel_cost = 83333
    /\ response.body.net_takehome = 156667

\* C7: beneficiary is "driver" exactly when the proposed fare exceeds the
\* returned yango_fare, "passenger" exactly when it is below it and
\* "balanced" exactly when the two are equal.
C7_Beneficiary ==
    Accepted =>
        LET p == request.proposed_fare
            y == response.body.yango_fare * Hundredths
        IN  /\ response.body.beneficiary \in {"driver", "passenger", "balanced"}
            /\ (response.body.beneficiary = "driver") = (p > y)
            /\ (response.body.beneficiary = "passenger") = (p < y)
            /\ (response.body.beneficiary = "balanced") = (p = y)

C7_Witness ==
    /\ Accepted
    /\ request.scenario = "peak"
    /\ request.proposed_fare = 53200
    /\ response.body.beneficiary = "balanced"

C9_Diagnostic ==
    Responded("/test") =>
        LET listed == /\ request.import_db = "db"
                      /\ request.get_name # "raises"
                      /\ ~request.list_names.raises
            names  == request.list_names.names
        IN  /\ response.status = 200
            /\ response.body.backend = "Running"
            /\ Len(response.body.collections) <= 10
            /\ listed => /\ response.body.connection_status = "Connected"
                         /\ \A i \in 1..Len(names) :
                               i <= 10 => /\ i <= Len(response.body.collections)
                                          /\ response.body.collections[i] = names[i]
            /\ ~listed => /\ response.body.connection_status = "Not Connected"
                          /\ response.body.collections = <<>>

C9_Witness ==
    /\ Responded("/test")
    /\ request.import_db = "db"
    /\ request.get_name = "None"
    /\ Len(request.list_names.names) = 12
    /\ Len(response.body.collections) = 10

\* C10: the acceptance declines away from [low, high]: it does not decrease
\* with the fare below low, does not increase above high, and no fare outside
\* the range is accepted more readily than the nearest end of the range.
C10_DeclinesAway ==
    Accepted =>
        LET low   == FlInt(30 * KmUnits(request.scenario))
            high  == FlInt(55 * KmUnits(request.scenario))
            p     == request.proposed_fare
            atLow  == Acceptance(low, low, high)
            atHigh == Acceptance(high, low, high)
            Acc(q) == Acceptance(FlOfHundredths(q), low, high)
        IN  /\ p < LowHundredths(request.scenario) =>
                 /\ FlCmp(frame.acceptance, atLow) <= 0
                 /\ p - 100 >= 5000 => FlCmp(Acc(p - 100), frame.acceptance) <= 0
            /\ p > HighHundredths(request.scenario) =>
                 /\ FlCmp(frame.acceptance, atHigh) <= 0
                 /\ p - 100 > HighHundredths(request.scenario) =>
                        FlCmp(Acc(p - 100), frame.acceptance) >= 0
====
